---- MODULE Spec2Model ----
(***************************************************************************)
(* PluginManager of cygnixy-plugin-interface (src/lib.rs).                 *)
(*                                                                         *)
(* The registry owns a name-indexed map of plugin instances and a          *)
(* load-order list of library handles.  Every call records in `trace` the  *)
(* hook calls, instance drops and library opens/closes it performed, in    *)
(* the order it performed them (what an instrumented plugin and loader     *)
(* would record); `insts` and `handles` accumulate their effect.           *)
(***************************************************************************)
EXTENDS Integers, Sequences, FiniteSets, TLC

\* --------------------------------------------------------------- bounds
\* Plugin instances ever created (by a factory or handed to
\* register_plugin_instance).
MaxInst == 2
\* Library handles ever opened.
MaxLib == 2

\* --------------------------------------------------------------- inputs
\* Plugin names.
Names == {"A", "B"}

\* Host-internal implementations of the PluginLua trait handed to
\* register_plugin_instance: name() and the names of the callables
\* get_lua_functions returns.  The built-in shares its name with the plugin
\* of libA.so, so either can displace the other.
PluginTypes == { [name |-> "A", funcs |-> {"run"}] }

\* Shared-object files load_plugin can be pointed at.
Paths == {"libA.so", "libB.so", "nosym.so", "missing.so"}

\* Library::new(path) succeeds.
LibraryOpens(path) == path # "missing.so"

\* lib.get(b"create_plugin") succeeds.
HasCreatePlugin(path) == path \in {"libA.so", "libB.so"}

\* The plugin the library's create_plugin manufactures.
CreatePlugin(path) ==
    IF path = "libA.so" THEN [name |-> "A", funcs |-> {"f", "run"}]
                        ELSE [name |-> "B", funcs |-> {"g", "run"}]

\* Option::None of a HashMap lookup; instance and handle ids start at 1.
NoPlugin == 0

VARIABLES
    plugins,    \* PluginManager.plugins: name -> instance id, or NoPlugin
    libraries,  \* PluginManager.libraries: handle ids, in push order
    insts,      \* every instance ever created, by id
    handles,    \* every library handle ever opened, by id
    globals,    \* lua.globals(): name -> [set, fns]
    alive,      \* TRUE until the PluginManager has been dropped
    ret,        \* the last call and what it returned
    trace       \* what the last call did, in order: [ev, id, ok]

vars == <<plugins, libraries, insts, handles, globals, alive, ret, trace>>

\* --------------------------------------------------------------- events
Ev(e, i, o) == [ev |-> e, id |-> i, ok |-> o]

EvOpen(h)        == Ev("open", h, TRUE)
EvClose(h)       == Ev("close", h, TRUE)
EvCreate(i)      == Ev("create", i, TRUE)
EvOnLoad(i, o)   == Ev("on_load", i, o)
EvOnUnload(i, o) == Ev("on_unload", i, o)
EvDrop(i)        == Ev("drop", i, TRUE)

\* A Box<dyn PluginLua> as it leaves the factory (lib = 0: host-internal).
NewInst(p, h) ==
    [name |-> p.name, funcs |-> p.funcs, lib |-> h,
     nLoad |-> 0, loadOk |-> FALSE, nUnload |-> 0, dropped |-> FALSE]

\* A Library as Library::new returns it.
NewLib(path) == [path |-> path, open |-> TRUE]

\* The effect of one event on the instances.
ApplyInst(I, e) ==
    IF e.ev = "on_load"
        THEN [I EXCEPT ![e.id].nLoad = @ + 1, ![e.id].loadOk = e.ok]
    ELSE IF e.ev = "on_unload" THEN [I EXCEPT ![e.id].nUnload = @ + 1]
    ELSE IF e.ev = "drop" THEN [I EXCEPT ![e.id].dropped = TRUE]
    ELSE I

\* The effect of one event on the library handles.
ApplyLib(H, e) ==
    IF e.ev = "close" THEN [H EXCEPT ![e.id].open = FALSE] ELSE H

RECURSIVE ApplyInsts(_, _)
ApplyInsts(I, es) ==
    IF es = <<>> THEN I ELSE ApplyInsts(ApplyInst(I, Head(es)), Tail(es))

RECURSIVE ApplyLibs(_, _)
ApplyLibs(H, es) ==
    IF es = <<>> THEN H ELSE ApplyLibs(ApplyLib(H, Head(es)), Tail(es))

\* Positions of trace t holding event e of object i.
AtIn(t, e, i) == {k \in DOMAIN t : t[k].ev = e /\ t[k].id = i}

\* Positions of the last call's trace holding event e of object i.
At(e, i) == AtIn(trace, e, i)

\* The elements of a sequence.
Range(s) == {s[k] : k \in DOMAIN s}

\* Instances indexed in map pl.
IndexedIn(pl) == {pl[n] : n \in Names} \ {NoPlugin}

Indexed == IndexedIn(plugins)

\* All orders in which a finite set can be iterated.
Orders(S) ==
    {s \in [1..Cardinality(S) -> S] : \A i, j \in DOMAIN s : i # j => s[i] # s[j]}

\* A call, its argument, its result, and the instance id it concerns.
Call(op, arg, res, val) == [op |-> op, arg |-> arg, res |-> res, val |-> val]

\* --------------------------------------------------------------- Init
\* PluginManager::new() and a fresh Lua state.
Init ==
    /\ plugins = [n \in Names |-> NoPlugin]
    /\ libraries = <<>>
    /\ insts = <<>>
    /\ handles = <<>>
    /\ globals = [n \in Names |-> [set |-> FALSE, fns |-> {}]]
    /\ alive = TRUE
    /\ ret = Call("new", "", "Ok", NoPlugin)
    /\ trace = <<>>

\* --------------------------------------------------------------- helpers
\* Mutant: the entry is only filled when vacant (entry().or_insert).
InsertSlotKeepOld(pl, name, i) ==
    IF pl[name] # NoPlugin THEN pl ELSE [pl EXCEPT ![name] = i]

\* HashMap::insert(name, plugin): the slot holds the new instance.
InsertSlot(pl, name, i) == [pl EXCEPT ![name] = i]

\* Mutant: the displaced instance is unloaded before it is dropped.
InsertUnloadsDisplaced(pl, name) ==
    IF pl[name] # NoPlugin
        THEN <<EvOnUnload(pl[name], TRUE), EvDrop(pl[name])>>
        ELSE <<>>

\* HashMap::insert returns the displaced Box, which nothing binds: it is
\* dropped at the end of the statement, with no hook called on it.
InsertDrops(pl, name) ==
    IF pl[name] # NoPlugin THEN <<EvDrop(pl[name])>> ELSE <<>>

\* `lib.get(b"create_plugin")?` failing: `lib` goes out of scope.
SymbolFailureCleanup(h) == <<EvClose(h)>>

\* Mutant: `lib` declared after the Box, so it is closed first.
LoadFailureCleanupLibFirst(i, h) == <<EvClose(h), EvDrop(i)>>

\* Mutant: the failed instance is unloaded before it is dropped.
LoadFailureCleanupUnloads(i, h) == <<EvOnUnload(i, TRUE), EvDrop(i), EvClose(h)>>

\* `boxed_raw_plugin.on_load()?` failing in load_plugin: the locals go out
\* of scope in reverse declaration order, the Box first and `lib` last.
LoadFailureCleanup(i, h) == <<EvDrop(i), EvClose(h)>>

\* Mutant: the instance whose on_load failed is unloaded before it is dropped.
RegisterFailureCleanupUnloads(i) == <<EvOnUnload(i, TRUE), EvDrop(i)>>

\* `plugin.on_load()?` failing in register_plugin_instance: the Box
\* parameter goes out of scope.
RegisterFailureCleanup(i) == <<EvDrop(i)>>

\* load_plugin, after a successful on_load: `self.libraries.push(lib)`.
PushLibrary(libs, h) == Append(libs, h)

\* --------------------------------------------------------------- load_plugin
\* Library::new(path)? fails.
LoadOpenFails(path) ==
    /\ ~LibraryOpens(path)
    /\ ret' = Call("load_plugin", path, "Err", NoPlugin)
    /\ trace' = <<>>
    /\ UNCHANGED <<plugins, libraries, insts, handles, globals, alive>>

\* lib.get(b"create_plugin")? fails.
LoadSymbolMissing(path) ==
    /\ LibraryOpens(path) /\ ~HasCreatePlugin(path)
    /\ Len(handles) < MaxLib
    /\ LET h == Len(handles) + 1
           t == <<EvOpen(h)>> \o SymbolFailureCleanup(h) IN
        /\ trace' = t
        /\ handles' = ApplyLibs(Append(handles, NewLib(path)), t)
    /\ ret' = Call("load_plugin", path, "Err", NoPlugin)
    /\ UNCHANGED <<plugins, libraries, insts, globals, alive>>

\* The factory ran; on_load returned Err.
LoadOnLoadFails(path) ==
    /\ LibraryOpens(path) /\ HasCreatePlugin(path)
    /\ Len(handles) < MaxLib /\ Len(insts) < MaxInst
    /\ LET h == Len(handles) + 1
           i == Len(insts) + 1
           t == <<EvOpen(h), EvCreate(i), EvOnLoad(i, FALSE)>>
                    \o LoadFailureCleanup(i, h) IN
        /\ trace' = t
        /\ handles' = ApplyLibs(Append(handles, NewLib(path)), t)
        /\ insts' = ApplyInsts(Append(insts, NewInst(CreatePlugin(path), h)), t)
        /\ ret' = Call("load_plugin", path, "Err", i)
    /\ UNCHANGED <<plugins, libraries, globals, alive>>

\* The factory ran; on_load returned Ok.
LoadSucceeds(path) ==
    /\ LibraryOpens(path) /\ HasCreatePlugin(path)
    /\ Len(handles) < MaxLib /\ Len(insts) < MaxInst
    /\ LET h == Len(handles) + 1
           i == Len(insts) + 1
           p == CreatePlugin(path)
           t == <<EvOpen(h), EvCreate(i), EvOnLoad(i, TRUE)>>
                    \o InsertDrops(plugins, p.name) IN
        /\ trace' = t
        /\ handles' = ApplyLibs(Append(handles, NewLib(path)), t)
        /\ insts' = ApplyInsts(Append(insts, NewInst(p, h)), t)
        /\ plugins' = InsertSlot(plugins, p.name, i)
        /\ libraries' = PushLibrary(libraries, h)
        /\ ret' = Call("load_plugin", path, "Ok", i)
    /\ UNCHANGED <<globals, alive>>

load_plugin(path) ==
    /\ alive
    /\ \/ LoadOpenFails(path)
       \/ LoadSymbolMissing(path)
       \/ LoadOnLoadFails(path)
       \/ LoadSucceeds(path)

\* --------------------------------------------------------------- register_plugin_instance
\* Mutant: the instance is inserted first and initialised in place
\* (get_mut), so a failing on_load has already displaced the old entry.
RegisterOnLoadFailsAfterInsert(p) ==
    /\ Len(insts) < MaxInst
    /\ LET i == Len(insts) + 1
           t == <<EvCreate(i)>> \o InsertDrops(plugins, p.name)
                    \o <<EvOnLoad(i, FALSE)>> IN
        /\ trace' = t
        /\ insts' = ApplyInsts(Append(insts, NewInst(p, 0)), t)
        /\ plugins' = InsertSlot(plugins, p.name, i)
        /\ ret' = Call("register_plugin_instance", p.name, "Err", i)
    /\ UNCHANGED <<libraries, handles, globals, alive>>

RegisterOnLoadFails(p) ==
    /\ Len(insts) < MaxInst
    /\ LET i == Len(insts) + 1
           t == <<EvCreate(i), EvOnLoad(i, FALSE)>> \o RegisterFailureCleanup(i) IN
        /\ trace' = t
        /\ insts' = ApplyInsts(Append(insts, NewInst(p, 0)), t)
        /\ ret' = Call("register_plugin_instance", p.name, "Err", i)
    /\ UNCHANGED <<plugins, libraries, handles, globals, alive>>

\* Mutant: the built-in is given a handle of the host program itself
\* (Library::this()), pushed like a loaded library.
RegisterSucceedsWithLibrary(p) ==
    /\ Len(insts) < MaxInst /\ Len(handles) < MaxLib
    /\ LET i == Len(insts) + 1
           h == Len(handles) + 1
           t == <<EvOpen(h), EvCreate(i), EvOnLoad(i, TRUE)>>
                    \o InsertDrops(plugins, p.name) IN
        /\ trace' = t
        /\ handles' = Append(handles, NewLib("self"))
        /\ insts' = ApplyInsts(Append(insts, NewInst(p, 0)), t)
        /\ plugins' = InsertSlot(plugins, p.name, i)
        /\ libraries' = PushLibrary(libraries, h)
        /\ ret' = Call("register_plugin_instance", p.name, "Ok", i)
    /\ UNCHANGED <<globals, alive>>

RegisterSucceeds(p) ==
    /\ Len(insts) < MaxInst
    /\ LET i == Len(insts) + 1
           t == <<EvCreate(i), EvOnLoad(i, TRUE)>> \o InsertDrops(plugins, p.name) IN
        /\ trace' = t
        /\ insts' = ApplyInsts(Append(insts, NewInst(p, 0)), t)
        /\ plugins' = InsertSlot(plugins, p.name, i)
        /\ ret' = Call("register_plugin_instance", p.name, "Ok", i)
    /\ UNCHANGED <<libraries, handles, globals, alive>>

register_plugin_instance(p) ==
    /\ alive
    /\ \/ RegisterOnLoadFails(p)
       \/ RegisterSucceeds(p)

\* --------------------------------------------------------------- unload_plugin
\* Mutant: the entry is borrowed (get_mut), not removed.
RemoveSlotKeeps(pl, name) == pl

\* HashMap::remove(name).
RemoveSlot(pl, name) == [pl EXCEPT ![name] = NoPlugin]

\* Mutant: a name that is not found is an error.
UnloadResultNotFoundErr(found, ok) == IF found /\ ok THEN "Ok" ELSE "Err"

\* Mutant: a failing on_unload is only logged, as in drop().
UnloadResultSwallows(found, ok) == "Ok"

\* What unload_plugin returns: `plugin.on_unload()?` propagates a failure;
\* the else branch (name not found) only traces and falls through to Ok(()).
UnloadResult(found, ok) == IF found /\ ~ok THEN "Err" ELSE "Ok"

\* Mutant: unloading a plugin also closes the library it came from.
UnloadEventsReleaseLib(i, ok) ==
    <<EvOnUnload(i, ok), EvDrop(i)>>
        \o (IF insts[i].lib # 0 THEN <<EvClose(insts[i].lib)>> ELSE <<>>)

\* The removed entry: on_unload runs, and the Box is dropped when `plugin`
\* goes out of scope, whether `?` returned early or not.
UnloadEvents(i, ok) == <<EvOnUnload(i, ok), EvDrop(i)>>

\* Mutant: unloading a plugin also clears its namespace in the globals.
UnloadPresentUnpublishes(name) ==
    /\ plugins[name] # NoPlugin
    /\ \E ok \in BOOLEAN :
        LET i == plugins[name]
            t == UnloadEvents(i, ok) IN
        /\ trace' = t
        /\ plugins' = RemoveSlot(plugins, name)
        /\ insts' = ApplyInsts(insts, t)
        /\ handles' = ApplyLibs(handles, t)
        /\ ret' = Call("unload_plugin", name, UnloadResult(TRUE, ok), i)
    /\ globals' = [globals EXCEPT ![name] = [set |-> FALSE, fns |-> {}]]
    /\ UNCHANGED <<libraries, alive>>

UnloadPresent(name) ==
    /\ plugins[name] # NoPlugin
    /\ \E ok \in BOOLEAN :
        LET i == plugins[name]
            t == UnloadEvents(i, ok) IN
        /\ trace' = t
        /\ plugins' = RemoveSlot(plugins, name)
        /\ insts' = ApplyInsts(insts, t)
        /\ handles' = ApplyLibs(handles, t)
        /\ ret' = Call("unload_plugin", name, UnloadResult(TRUE, ok), i)
    /\ UNCHANGED <<libraries, globals, alive>>

UnloadAbsent(name) ==
    /\ plugins[name] = NoPlugin
    /\ ret' = Call("unload_plugin", name, UnloadResult(FALSE, TRUE), NoPlugin)
    /\ trace' = <<>>
    /\ UNCHANGED <<plugins, libraries, insts, handles, globals, alive>>

unload_plugin(name) ==
    /\ alive
    /\ \/ UnloadPresent(name)
       \/ UnloadAbsent(name)

\* --------------------------------------------------------------- get_plugin
\* self.plugins.get(name).map(..)
Lookup(pl, name) == pl[name]

get_plugin(name) ==
    /\ alive
    /\ LET i == Lookup(plugins, name) IN
        ret' = Call("get_plugin", name, IF i # NoPlugin THEN "Some" ELSE "None", i)
    /\ trace' = <<>>
    /\ UNCHANGED <<plugins, libraries, insts, handles, globals, alive>>

\* --------------------------------------------------------------- register_all_plugins
EvQuery(i) == Ev("get_lua_functions", i, TRUE)

\* Mutant: one table is shared by all plugins, so it collects every indexed
\* plugin's callables.
TableOfShared(i) ==
    UNION {{<<f, j>> : f \in insts[j].funcs} : j \in Indexed \cup {i}}

\* The table register_all_plugins fills for instance i: one entry per
\* callable of get_lua_functions, <<name, instance the callable belongs to>>.
TableOf(i) == {<<f, i>> : f \in insts[i].funcs}

\* lua.globals().set(plugin.name(), plugin_table)
Publish(g, name, tbl) == [g EXCEPT ![name] = [set |-> TRUE, fns |-> tbl]]

\* The fallible Lua calls made for instance i, in order: create_table, one
\* plugin_table.set per callable, globals().set.
StepsOf(i) == Cardinality(insts[i].funcs) + 2

StepName(i, step) ==
    IF step = 1 THEN "create_table"
    ELSE IF step = StepsOf(i) THEN "globals.set"
    ELSE "table.set"

RECURSIVE RegisterLoopContinues(_, _, _, _, _)
\* Mutant: a Lua failure skips the plugin it hit and the loop goes on; the
\* error is reported at the end.
RegisterLoopContinues(order, k, g, pos, step) ==
    IF k > Len(order)
        THEN [g |-> g, res |-> IF pos = 0 THEN "Ok" ELSE "Err", t |-> <<>>]
    ELSE LET i == order[k]
             r == RegisterLoopContinues(order, k + 1,
                        IF k = pos THEN g ELSE Publish(g, insts[i].name, TableOf(i)),
                        pos, step)
         IN [r EXCEPT !.t = (IF k = pos /\ step = 1 THEN <<>> ELSE <<EvQuery(i)>>) \o @]

RECURSIVE RegisterLoopPublishesFirst(_, _, _, _, _)
\* Mutant: the table is stored in the globals as soon as it is created and
\* filled afterwards, so a failing plugin_table.set leaves it half filled.
RegisterLoopPublishesFirst(order, k, g, pos, step) ==
    IF k > Len(order) THEN [g |-> g, res |-> "Ok", t |-> <<>>]
    ELSE LET i == order[k] IN
         IF k = pos
            THEN [g |-> IF step = 1 THEN g
                        ELSE Publish(g, insts[i].name,
                                CHOOSE S \in SUBSET TableOf(i) :
                                    Cardinality(S) = step - 2),
                  res |-> "Err",
                  t |-> IF step = 1 THEN <<>> ELSE <<EvQuery(i)>>]
            ELSE LET r == RegisterLoopPublishesFirst(order, k + 1,
                                       Publish(g, insts[i].name, TableOf(i)),
                                       pos, step)
                 IN [r EXCEPT !.t = <<EvQuery(i)>> \o @]

RECURSIVE RegisterLoop(_, _, _, _, _)
\* The loop over self.plugins.values() from position k on, with Lua failing
\* at step `step` of the plugin at position `pos` (pos = 0: Lua never
\* fails).  `?` returns at the failure: the table being filled is a local
\* and is never published.
RegisterLoop(order, k, g, pos, step) ==
    IF k > Len(order) THEN [g |-> g, res |-> "Ok", t |-> <<>>]
    ELSE LET i == order[k] IN
         IF k = pos
            THEN [g |-> g, res |-> "Err",
                  t |-> IF step = 1 THEN <<>> ELSE <<EvQuery(i)>>]
            ELSE LET r == RegisterLoop(order, k + 1,
                                       Publish(g, insts[i].name, TableOf(i)),
                                       pos, step)
                 IN [r EXCEPT !.t = <<EvQuery(i)>> \o @]

register_all_plugins ==
    /\ alive
    /\ \E order \in Orders(Indexed) : \E pos \in 0..Len(order) :
        \E step \in (IF pos = 0 THEN {1} ELSE 1..StepsOf(order[pos])) :
            LET r == RegisterLoop(order, 1, globals, pos, step) IN
            /\ globals' = r.g
            /\ trace' = r.t
            /\ ret' = Call("register_all_plugins",
                           IF pos = 0 THEN "" ELSE StepName(order[pos], step),
                           r.res,
                           IF pos = 0 THEN NoPlugin ELSE order[pos])
    /\ UNCHANGED <<plugins, libraries, insts, handles, alive>>

\* --------------------------------------------------------------- Drop
RECURSIVE UnloadAllStopAtFailure(_, _)
\* Mutant: the loop propagates the first failure instead of logging it.
UnloadAllStopAtFailure(order, failing) ==
    IF order = <<>> THEN <<>>
    ELSE <<EvOnUnload(Head(order), Head(order) \notin failing), EvDrop(Head(order))>>
            \o (IF Head(order) \in failing THEN <<>>
                ELSE UnloadAllStopAtFailure(Tail(order), failing))

RECURSIVE UnloadAll(_, _)
\* The loop of drop(): on_unload on each drained plugin, an Err only logged,
\* the Box dropped at the end of its iteration.
UnloadAll(order, failing) ==
    IF order = <<>> THEN <<>>
    ELSE <<EvOnUnload(Head(order), Head(order) \notin failing), EvDrop(Head(order))>>
            \o UnloadAll(Tail(order), failing)

\* Vec<Library> dropped: every handle is closed, in order.
ReleaseLibraries(libs) == [k \in 1..Len(libs) |-> EvClose(libs[k])]

\* Mutant: the library list is released before the plugins are unloaded.
DropEventsLibrariesFirst(order, failing, libs) ==
    ReleaseLibraries(libs) \o UnloadAll(order, failing)

\* drop(&mut self) runs first; the fields are dropped after it.
DropEvents(order, failing, libs) ==
    UnloadAll(order, failing) \o ReleaseLibraries(libs)

Drop ==
    /\ alive
    /\ \E order \in Orders(Indexed) : \E failing \in SUBSET Indexed :
        LET t == DropEvents(order, failing, libraries) IN
        /\ trace' = t
        /\ insts' = ApplyInsts(insts, t)
        /\ handles' = ApplyLibs(handles, t)
    /\ plugins' = [n \in Names |-> NoPlugin]
    /\ libraries' = <<>>
    /\ alive' = FALSE
    /\ ret' = Call("drop", "", "Ok", NoPlugin)
    /\ UNCHANGED globals

\* --------------------------------------------------------------- Next
Next ==
    \/ \E path \in Paths : load_plugin(path)
    \/ \E p \in PluginTypes : register_plugin_instance(p)
    \/ \E name \in Names : unload_plugin(name)
    \/ \E name \in Names : get_plugin(name)
    \/ register_all_plugins
    \/ Drop

Spec == Init /\ [][Next]_vars

\* =============================================================== claims
\* A step that drops the PluginManager.
IsTeardown == alive /\ ~alive'

\* A load_plugin or register_plugin_instance call that returned Ok.
LoadedOk(r) == r.op \in {"load_plugin", "register_plugin_instance"} /\ r.res = "Ok"

\* C1: at teardown on_unload is invoked exactly once on every plugin still
\* indexed, and every on_unload call precedes every release of a library
\* handle of the registry's list.
C1_TeardownOrder ==
    [][IsTeardown =>
        /\ \A i \in Indexed :
            /\ Cardinality(AtIn(trace', "on_unload", i)) = 1
            /\ insts'[i].nUnload = 1
        /\ \A h \in Range(libraries) : AtIn(trace', "close", h) # {}
        /\ \A k, m \in DOMAIN trace' :
            trace'[k].ev = "close" /\ trace'[m].ev = "on_unload" => m < k]_vars

\* Teardown of a registry holding two plugins and a library has happened.
C1_Witness ==
    /\ ret.op = "drop"
    /\ Cardinality({k \in DOMAIN trace : trace[k].ev = "on_unload"}) = 2
    /\ \E k \in DOMAIN trace : trace[k].ev = "close"

\* C2 (as claimed): when on_load fails in load_plugin, the error is
\* returned, the instance is dropped, and the library handle is retained in
\* the registry's library list, still open.
C2_HandleRetainedOnLoadFailure ==
    (ret.op = "load_plugin" /\ ret.val # NoPlugin /\ ~insts[ret.val].loadOk) =>
        /\ ret.res = "Err"
        /\ insts[ret.val].dropped
        /\ insts[ret.val].lib \in Range(libraries)
        /\ handles[insts[ret.val].lib].open

\* Instance i was dropped before position k of the last call's trace.
DroppedBefore(i, k) == insts[i].dropped /\ \A j \in At("drop", i) : j < k

\* C3: no library handle is released while an instance manufactured from it
\* is alive, between calls and at every point inside a call.
C3_LibraryOutlivesInstances ==
    /\ \A i \in DOMAIN insts :
        (insts[i].lib # 0 /\ ~insts[i].dropped) => handles[insts[i].lib].open
    /\ \A k \in DOMAIN trace :
        trace[k].ev = "close" =>
            \A i \in DOMAIN insts : insts[i].lib = trace[k].id => DroppedBefore(i, k)

\* Teardown has closed two libraries whose plugins had both been loaded under
\* the same name (one displaced by the other).
C3_Witness ==
    /\ ret.op = "drop"
    /\ \E i, j \in DOMAIN insts :
        /\ i # j /\ insts[i].name = insts[j].name
        /\ insts[i].loadOk /\ insts[j].loadOk
        /\ insts[i].lib # 0 /\ insts[j].lib # 0
        /\ ~handles[insts[i].lib].open /\ ~handles[insts[j].lib].open

\* C4: a successful load or register under a name already indexed puts the
\* new instance in the slot and drops the displaced one without on_unload;
\* an instance dropped without on_unload never receives one later.
C4_ReplaceWithoutUnload ==
    [][/\ (LoadedOk(ret') /\ Len(insts') = Len(insts) + 1
             /\ plugins[insts'[ret'.val].name] # NoPlugin) =>
            LET n == insts'[ret'.val].name
                old == plugins[n] IN
            /\ Lookup(plugins', n) = ret'.val
            /\ old # ret'.val
            /\ AtIn(trace', "on_unload", old) = {}
            /\ insts'[old].nUnload = 0
            /\ insts'[old].dropped
       /\ \A i \in DOMAIN insts :
            (insts[i].dropped /\ insts[i].nUnload = 0) => insts'[i].nUnload = 0]_vars

\* A replacement has just happened: the displaced instance is dropped, never
\* unloaded, and the slot holds the new one.
C4_Witness ==
    /\ LoadedOk(ret)
    /\ \E old \in DOMAIN insts :
        /\ old # ret.val /\ insts[old].name = insts[ret.val].name
        /\ insts[old].loadOk /\ insts[old].dropped /\ insts[old].nUnload = 0
        /\ At("drop", old) # {}

C6_UnloadErrWhenNotFound ==
    ret.op = "unload_plugin" =>
        /\ ret.val = NoPlugin => ret.res = "Err"
        /\ (\E k \in DOMAIN trace : trace[k].ev = "on_unload" /\ ~trace[k].ok)
                => ret.res = "Err"

\* Name n has no live, successfully loaded instance.
NotIndexed(n) ==
    \A i \in DOMAIN insts :
        insts[i].name = n => ~(insts[i].loadOk /\ ~insts[i].dropped)

\* C7: get_plugin(N) right after a successful load or register of a plugin
\* named N returns that instance; get_plugin of a name that is not indexed
\* returns None.
C7_GetAfterLoad ==
    [][ret'.op = "get_plugin" =>
        /\ (LoadedOk(ret) /\ insts[ret.val].name = ret'.arg) =>
                ret'.res = "Some" /\ ret'.val = ret.val
        /\ NotIndexed(ret'.arg) => ret'.res = "None" /\ ret'.val = NoPlugin]_vars

\* get_plugin returned the second instance loaded under a name.
C7_Witness ==
    /\ ret.op = "get_plugin" /\ ret.res = "Some"
    /\ \E old \in DOMAIN insts :
        old < ret.val /\ insts[old].name = ret.arg /\ insts[old].loadOk

\* C8: an instance whose on_load failed is never indexed: its call returned
\* Err, it is dropped without on_unload, and no get_plugin returns it.
C8_FailedOnLoadNeverIndexed ==
    /\ \A i \in DOMAIN insts :
        ~insts[i].loadOk =>
            /\ i \notin Indexed
            /\ insts[i].nLoad = 1
            /\ insts[i].dropped
            /\ insts[i].nUnload = 0
    /\ (ret.op \in {"load_plugin", "register_plugin_instance"}
            /\ ret.val # NoPlugin /\ ~insts[ret.val].loadOk) => ret.res = "Err"
    /\ (ret.op = "get_plugin" /\ ret.val # NoPlugin) => insts[ret.val].loadOk

\* get_plugin found nothing under the name of an instance whose on_load
\* failed.
C8_Witness ==
    /\ ret.op = "get_plugin" /\ ret.res = "None"
    /\ \E i, j \in DOMAIN insts :
        /\ insts[i].name = ret.arg /\ ~insts[i].loadOk /\ insts[i].lib # 0
        /\ insts[j].name = ret.arg /\ ~insts[j].loadOk /\ insts[j].lib = 0

\* s is a prefix of t.
IsPrefix(s, t) == Len(s) <= Len(t) /\ \A k \in DOMAIN s : s[k] = t[k]

\* C9: unload_plugin, register_plugin_instance, register_all_plugins and
\* get_plugin leave the library list and every handle as they were; until
\* teardown the list only grows at its end and every handle in it is open.
C9_LibrariesOnlyGrow ==
    [][/\ ret'.op \in {"unload_plugin", "register_plugin_instance",
                       "register_all_plugins", "get_plugin"} =>
            libraries' = libraries /\ handles' = handles
       /\ alive' =>
            /\ IsPrefix(libraries, libraries')
            /\ \A h \in Range(libraries') : handles'[h].open]_vars

\* A plugin that came from a library has been unloaded, and its library is
\* still in the list.
C9_Witness ==
    /\ ret.op = "unload_plugin" /\ ret.val # NoPlugin
    /\ insts[ret.val].lib \in Range(libraries)
    /\ handles[insts[ret.val].lib].open
    /\ Len(libraries) = 2

\* C10: at teardown, whichever on_unload calls fail, every indexed plugin
\* receives on_unload and is dropped, and every library handle of the list
\* is released.
C10_TeardownIsolatesFailures ==
    [][IsTeardown =>
        /\ \A i \in Indexed :
            AtIn(trace', "on_unload", i) # {} /\ insts'[i].dropped
        /\ \A h \in Range(libraries) :
            AtIn(trace', "close", h) # {} /\ ~handles'[h].open
        /\ ret'.res = "Ok"]_vars

\* Teardown in which the first on_unload failed, a second plugin was
\* unloaded after it, and a library was released.
C10_Witness ==
    /\ ret.op = "drop"
    /\ \E k, m \in DOMAIN trace :
        /\ k < m
        /\ trace[k].ev = "on_unload" /\ ~trace[k].ok
        /\ trace[m].ev = "on_unload"
    /\ \E k \in DOMAIN trace : trace[k].ev = "close"

\* C11: unload_plugin(N) with N present removes the entry for N, calls
\* on_unload on that instance exactly once, and returns Err exactly when that
\* on_unload failed.
C11_UnloadPresent ==
    [][(ret'.op = "unload_plugin" /\ plugins[ret'.arg] # NoPlugin) =>
        LET i == plugins[ret'.arg] IN
        /\ ret'.val = i
        /\ plugins' = [plugins EXCEPT ![ret'.arg] = NoPlugin]
        /\ Cardinality(AtIn(trace', "on_unload", i)) = 1
        /\ insts[i].nUnload = 0 /\ insts'[i].nUnload = 1
        /\ \A k \in AtIn(trace', "on_unload", i) :
            (ret'.res = "Err") <=> ~trace'[k].ok]_vars

\* unload_plugin returned the failure of the on_unload of a present plugin.
C11_Witness ==
    /\ ret.op = "unload_plugin" /\ ret.res = "Err" /\ ret.val # NoPlugin
    /\ plugins[ret.arg] = NoPlugin
    /\ At("on_unload", ret.val) # {}

\* C12: after a successful register_all_plugins the global scope holds, under
\* the name of every indexed plugin, a namespace with exactly that plugin's
\* callables and none of another plugin's, also when two plugins expose a
\* callable of the same name.
C12_NamespacePerPlugin ==
    (ret.op = "register_all_plugins" /\ ret.res = "Ok") =>
        \A n \in Names :
            plugins[n] # NoPlugin =>
                /\ globals[n].set
                /\ globals[n].fns = {<<f, plugins[n]>> : f \in insts[plugins[n]].funcs}

\* A successful registration of two plugins that both expose "run".
C12_Witness ==
    /\ ret.op = "register_all_plugins" /\ ret.res = "Ok"
    /\ \A n \in Names :
        /\ plugins[n] # NoPlugin
        /\ <<"run", plugins[n]>> \in globals[n].fns

\* Instances the last call asked for their callables.
QueriedIn(t) == {t[k].id : k \in {j \in DOMAIN t : t[j].ev = "get_lua_functions"}}

\* C13: a register_all_plugins that Lua fails part-way returns Err, stops at
\* the plugin the failure hit (no plugin is processed after it), keeps the
\* namespace of every plugin processed before it published, and leaves the
\* rest of the global scope as it was.
C13_AbortAtFirstFailure ==
    [][(ret'.op = "register_all_plugins" /\ ret'.val # NoPlugin) =>
        LET bad == ret'.val
            done == QueriedIn(trace') \ {bad} IN
        /\ ret'.res = "Err"
        /\ bad \in Indexed
        /\ \A k \in DOMAIN trace' : trace'[k].id = bad => k = Len(trace')
        /\ Len(trace') <= Cardinality(done) + 1
        /\ \A i \in done :
            /\ i \in Indexed
            /\ globals'[insts[i].name] = [set |-> TRUE, fns |-> TableOf(i)]
        /\ \A n \in Names :
            (\A i \in done : insts[i].name # n) => globals'[n] = globals[n]]_vars

\* Lua failed on a plugin_table.set of the second plugin processed: the first
\* plugin's namespace is published, the second's is not.
C13_Witness ==
    /\ ret.op = "register_all_plugins" /\ ret.res = "Err" /\ ret.arg = "table.set"
    /\ Len(trace) = 2
    /\ globals[insts[trace[1].id].name].set
    /\ ~globals[insts[ret.val].name].set

\* C14: for every instance, on every path: on_load is called once, directly
\* after the instance is made and before any other hook; the instance is
\* indexed, asked for its callables or given on_unload only if its on_load
\* succeeded; and on_unload is called at most once, followed by nothing but
\* the drop of the instance.
C14_LifecycleProtocol ==
    [][/\ \A i \in DOMAIN insts' :
            LET x == insts'[i] IN
            /\ x.nLoad = 1
            /\ x.nUnload <= 1
            /\ x.nUnload = 1 => x.loadOk /\ x.dropped
            /\ i \in IndexedIn(plugins') => x.loadOk /\ ~x.dropped /\ x.nUnload = 0
       /\ \A k \in DOMAIN trace' :
            LET e == trace'[k]
                i == e.id IN
            /\ e.ev = "on_load" =>
                i \notin DOMAIN insts /\ k > 1 /\ trace'[k - 1] = EvCreate(i)
            /\ e.ev \in {"on_unload", "get_lua_functions"} =>
                /\ i \in DOMAIN insts =>
                    insts[i].loadOk /\ insts[i].nUnload = 0 /\ ~insts[i].dropped
                /\ i \notin DOMAIN insts =>
                    \E j \in 1..(k - 1) : trace'[j] = EvOnLoad(i, TRUE)
                /\ \A j \in 1..(k - 1) :
                    ~(trace'[j].id = i /\ trace'[j].ev \in {"on_unload", "drop"})
            /\ e.ev = "on_unload" =>
                k < Len(trace') /\ trace'[k + 1] = EvDrop(i)]_vars

\* An instance has gone through the whole lifecycle: loaded, its callables
\* published, unloaded, dropped.
C14_Witness ==
    /\ ret.op = "unload_plugin" /\ ret.val # NoPlugin
    /\ insts[ret.val].loadOk /\ insts[ret.val].nUnload = 1 /\ insts[ret.val].dropped
    /\ <<"run", ret.val>> \in globals[ret.arg].fns

\* C15: register_plugin_instance calls on_load exactly once on the instance
\* it is given, indexes it under its name when on_load succeeded, and opens
\* no library: the library list and every handle are as before the call,
\* whether it succeeded or failed.
C15_RegisterBypassesLoader ==
    [][(ret'.op = "register_plugin_instance" /\ Len(insts') = Len(insts) + 1) =>
        LET i == ret'.val IN
        /\ i = Len(insts')
        /\ Cardinality(AtIn(trace', "on_load", i)) = 1
        /\ insts'[i].nLoad = 1
        /\ insts'[i].lib = 0
        /\ ret'.res = "Ok" => Lookup(plugins', insts'[i].name) = i
        /\ ret'.res = "Ok" <=> insts'[i].loadOk
        /\ libraries' = libraries
        /\ handles' = handles
        /\ \A k \in DOMAIN trace' : trace'[k].ev \notin {"open", "close"}]_vars

\* A host-internal instance is indexed next to a plugin that came from a
\* library, and the library list holds that one library only.
C15_Witness ==
    /\ ret.op = "register_plugin_instance" /\ ret.res = "Ok"
    /\ plugins[ret.arg] = ret.val
    /\ Len(libraries) = 1 /\ Len(handles) = 1
    /\ \E n \in Names : plugins[n] # NoPlugin /\ insts[plugins[n]].lib # 0

\* C16: a load_plugin or register_plugin_instance that returns Err (open
\* failure, missing factory symbol, on_load failure) leaves the map as it
\* was, and every indexed instance untouched: a plugin already indexed under
\* the name of the failed instance is still what get_plugin returns, and has
\* received no on_unload.
C16_FailedLoadKeepsMap ==
    [][(ret'.op \in {"load_plugin", "register_plugin_instance"} /\ ret'.res = "Err") =>
        /\ plugins' = plugins
        /\ \A n \in Names : Lookup(plugins', n) = Lookup(plugins, n)
        /\ \A i \in Indexed :
            /\ insts'[i] = insts[i]
            /\ \A k \in DOMAIN trace' :
                trace'[k].id = i => trace'[k].ev \in {"open", "close"}]_vars

\* The on_load of a second instance failed while a plugin of the same name is
\* indexed.
C16_Witness ==
    /\ ret.op \in {"load_plugin", "register_plugin_instance"}
    /\ ret.res = "Err" /\ ret.val # NoPlugin
    /\ LET n == insts[ret.val].name IN
        /\ plugins[n] # NoPlugin /\ plugins[n] # ret.val
        /\ insts[plugins[n]].nUnload = 0 /\ ~insts[plugins[n]].dropped

\* C17: on_unload is called at most once on any instance; an instance that
\* received it is dropped and no longer indexed, and after an unload_plugin
\* that returned Err the name is not found and the instance is dropped.
C17_UnloadAtMostOnce ==
    /\ \A i \in DOMAIN insts :
        /\ insts[i].nUnload <= 1
        /\ insts[i].nUnload = 1 => insts[i].dropped /\ i \notin Indexed
    /\ (ret.op = "unload_plugin" /\ ret.res = "Err") =>
        /\ ret.val # NoPlugin
        /\ Lookup(plugins, ret.arg) = NoPlugin
        /\ insts[ret.val].dropped
        /\ insts[ret.val].nUnload = 1

\* Teardown has unloaded one plugin; another one had been unloaded by an
\* earlier unload_plugin and was not touched again.
C17_Witness ==
    /\ ret.op = "drop"
    /\ \E i, j \in DOMAIN insts :
        /\ insts[i].nUnload = 1 /\ At("on_unload", i) = {} /\ At("drop", i) = {}
        /\ insts[j].nUnload = 1 /\ At("on_unload", j) # {}

\* C18: register_all_plugins changes a global entry only by storing the
\* complete namespace of the plugin indexed under that name; the entry of the
\* plugin a Lua failure hit is left as it was before the call.
C18_NoPartialNamespace ==
    [][ret'.op = "register_all_plugins" =>
        /\ \A n \in Names :
            \/ globals'[n] = globals[n]
            \/ /\ plugins[n] \notin {NoPlugin, ret'.val}
               /\ globals'[n] = [set |-> TRUE, fns |-> TableOf(plugins[n])]
        /\ ret'.val # NoPlugin =>
            globals'[insts[ret'.val].name] = globals[insts[ret'.val].name]]_vars

\* A plugin_table.set failed for a plugin whose name still holds the
\* namespace an earlier registration published for the instance it displaced.
C18_Witness ==
    /\ ret.op = "register_all_plugins" /\ ret.res = "Err" /\ ret.arg = "table.set"
    /\ LET n == insts[ret.val].name IN
        /\ globals[n].set
        /\ \E old \in DOMAIN insts :
            old # ret.val /\ globals[n].fns = TableOf(old)

\* C19: unload_plugin and teardown leave the global scope exactly as it was:
\* a published namespace stays, with its callables, after its plugin has been
\* unloaded and dropped.
C19_UnloadKeepsGlobals ==
    [][ret'.op \in {"unload_plugin", "drop"} => globals' = globals]_vars

\* A plugin has been unloaded and dropped, and the namespace published for
\* it is still in the globals with its callable.
C19_Witness ==
    /\ ret.op = "unload_plugin" /\ ret.val # NoPlugin
    /\ insts[ret.val].dropped
    /\ globals[ret.arg].set
    /\ globals[ret.arg].fns = TableOf(ret.val)

====
